---- MODULE Spec2Model ----
(***************************************************************************)
(* Inventory coverage dashboard (src/app.py).                              *)
(*                                                                         *)
(* The script is re-run from the top on every interaction: a file is       *)
(* uploaded, load_and_process_data turns it into the enriched dataset (or  *)
(* into an error), and the selected menu builds its tables from that       *)
(* dataset.                                                                *)
(*                                                                         *)
(* Column names of the source are Korean; the module uses the English      *)
(* names of the written specification, one for one:                        *)
(*   store_name(1) product_name(2) product_code(3) business_unit = BIZ(4)  *)
(*   season(5) unit_price(6) week1_sales(7) week2_sales(8) week3_sales(9)  *)
(*   current_stock_qty(10) inventory_value(11),                            *)
(* "ONLINE" is the online pseudo-store and "won" the currency token.       *)
(*                                                                         *)
(* Numbers are exact rationals [n, d] in lowest terms (d > 0). The source  *)
(* computes in binary floating point; the quantities of the model are      *)
(* small decimals, for which every comparison the source makes against     *)
(* 0, 2, 4 and 999 has the same outcome as in exact arithmetic.            *)
(***************************************************************************)
EXTENDS Integers, Sequences, FiniteSets, TLC

-----------------------------------------------------------------------------
(* Numbers *)

Abs(i) == IF i < 0 THEN -i ELSE i

RECURSIVE Gcd(_, _)
Gcd(a, b) == IF b = 0 THEN a ELSE Gcd(b, a % b)

\* the rational n/d in lowest terms, d > 0
Rat(n, d) ==
    LET g == Gcd(Abs(n), Abs(d))
        s == IF d < 0 THEN -1 ELSE 1
    IN  [n |-> (s * n) \div g, d |-> (s * d) \div g]

RatInt(i) == [n |-> i, d |-> 1]
RatAdd(a, b) == Rat(a.n * b.d + b.n * a.d, a.d * b.d)
RatMul(a, b) == Rat(a.n * b.n, a.d * b.d)
\* a / b for b # 0
RatDiv(a, b) == Rat(a.n * b.d, a.d * b.n)
RatLt(a, b) == a.n * b.d < b.n * a.d
RatLe(a, b) == a.n * b.d <= b.n * a.d

\* Python int(x): truncation toward zero
Trunc(a) == IF a.n >= 0 THEN a.n \div a.d ELSE -((-a.n) \div a.d)

RECURSIVE RatSum(_)
RatSum(s) == IF s = <<>> THEN RatInt(0) ELSE RatAdd(Head(s), RatSum(Tail(s)))

RECURSIVE IntSum(_)
IntSum(s) == IF s = <<>> THEN 0 ELSE Head(s) + IntSum(Tail(s))

\* the integer nearest to a, the even one of two equally near
RoundHalfEven(a) ==
    LET floor == a.n \div a.d
        twice == 2 * (a.n - floor * a.d)
    IN  IF twice < a.d THEN floor
        ELSE IF twice > a.d THEN floor + 1
        ELSE IF floor % 2 = 0 THEN floor ELSE floor + 1

\* a to one decimal: round(x, 1) of a numpy float and the format :.1f
RoundTo1(a) == Rat(RoundHalfEven(RatMul(a, RatInt(10))), 10)

-----------------------------------------------------------------------------
(* Cells of the uploaded sheet *)

\* a cell of a numeric column: empty, a number, or text (a sequence of characters)
NaN == [t |-> "nan", n |-> 0, d |-> 1, s |-> <<>>]
Num(r) == [t |-> "num", n |-> r.n, d |-> r.d, s |-> <<>>]
Txt(s) == [t |-> "str", n |-> 0, d |-> 1, s |-> s]
Val(c) == [n |-> c.n, d |-> c.d]

\* a missing cell of a text column
NA == "<NA>"

\* Series.mean(): the sum over the count, nan for no element
mean(values) ==
    IF values = <<>> THEN NaN ELSE Num(RatDiv(RatSum(values), RatInt(Len(values))))

\* round(x, 1) on a float that may be nan: nan stays nan
round1(c) == IF c.t = "num" THEN Num(RoundTo1(Val(c))) ELSE c

Digits == <<"0", "1", "2", "3", "4", "5", "6", "7", "8", "9">>
IsDigit(ch) == \E i \in 1..10 : Digits[i] = ch
DigitVal(ch) == (CHOOSE i \in 1..10 : Digits[i] = ch) - 1

RECURSIVE Pow10(_)
Pow10(k) == IF k = 0 THEN 1 ELSE 10 * Pow10(k - 1)

\* str.replace(old, ''): every occurrence of the character removed
RECURSIVE Replace(_, _)
Replace(s, old) ==
    IF s = <<>> THEN <<>>
    ELSE IF Head(s) = old THEN Replace(Tail(s), old)
         ELSE <<Head(s)>> \o Replace(Tail(s), old)

\* the value of a run of digits
RECURSIVE DigitsVal(_)
DigitsVal(s) ==
    IF s = <<>> THEN 0 ELSE DigitsVal(SubSeq(s, 1, Len(s) - 1)) * 10 + DigitVal(s[Len(s)])

AllDigits(s) == \A i \in 1..Len(s) : IsDigit(s[i])

\* number of "." in s
Dots(s) == Cardinality({i \in 1..Len(s) : s[i] = "."})

\* astype(str) of a number cell: the decimal text Python prints for it
\* (integers, and fractions with one decimal)
RECURSIVE NatStr(_)
NatStr(k) == IF k < 10 THEN <<Digits[k + 1]>> ELSE NatStr(k \div 10) \o <<Digits[(k % 10) + 1]>>

NumStr(r) ==
    LET sign == IF r.n < 0 THEN <<"-">> ELSE <<>>
        tenths == (Abs(r.n) * 10) \div r.d
    IN  IF r.d = 1 THEN sign \o NatStr(Abs(r.n))
        ELSE sign \o NatStr(tenths \div 10) \o <<".">> \o NatStr(tenths % 10)

\* pd.to_numeric(text, errors='coerce') on text made of digits, ".", "-" and
\* other characters: an optional sign, digits with at most one ".", at least
\* one digit; the text "nan" and everything else is missing
to_numeric(s) ==
    LET neg == s # <<>> /\ Head(s) = "-"
        body == IF neg THEN Tail(s) ELSE s
        nodot == Replace(body, ".")
        dot == IF Dots(body) = 1 THEN CHOOSE i \in 1..Len(body) : body[i] = "." ELSE Len(body) + 1
        fracLen == Len(body) - dot
        mag == Rat(DigitsVal(nodot), Pow10(IF fracLen > 0 THEN fracLen ELSE 0))
    IN  IF nodot # <<>> /\ AllDigits(nodot) /\ Dots(body) <= 1
        THEN Num(IF neg THEN Rat(-mag.n, mag.d) ELSE mag)
        ELSE NaN

-----------------------------------------------------------------------------
(* load_and_process_data *)

\* Python's None in the pair the function returns: a dataset or no dataset,
\* a message or no message
NoData == [none |-> TRUE, rows |-> <<>>]
Data(rows) == [none |-> FALSE, rows |-> rows]
NoError == [none |-> TRUE, kind |-> "none", missing |-> <<>>]
Error(missing) == [none |-> FALSE, kind |-> "missing_columns", missing |-> missing]

\* the message of the except branch (line 390)
ProcessingError == [none |-> FALSE, kind |-> "exception", missing |-> <<>>]

required_columns ==
    <<"store_name", "product_name", "product_code", "business_unit", "season",
      "unit_price", "week1_sales", "week2_sales", "week3_sales",
      "current_stock_qty", "inventory_value">>

identity_columns == <<"store_name", "product_name", "product_code">>

numeric_columns ==
    <<"unit_price", "week1_sales", "week2_sales", "week3_sales",
      "current_stock_qty", "inventory_value">>

Range(s) == {s[i] : i \in 1..Len(s)}

\* str.strip() of a column name (a sequence of tokens, " " being white space)
RECURSIVE LStrip(_)
LStrip(name) ==
    IF name # <<>> /\ Head(name) = " " THEN LStrip(Tail(name)) ELSE name

RECURSIVE RStrip(_)
RStrip(name) ==
    IF name # <<>> /\ name[Len(name)] = " "
    THEN RStrip(SubSeq(name, 1, Len(name) - 1)) ELSE name

\* fault variant of strip: only leading white space goes
strip_leading_only(name) == LStrip(name)

strip(name) == RStrip(LStrip(name))

\* data.columns = data.columns.str.strip()
StripColumns(columns) == {strip(c) : c \in columns}

\* fault variant of missing_columns: the search stops at the first absent column
OnlyFirstMissing(columns) ==
    LET all == SelectSeq(required_columns, LAMBDA col : <<col>> \notin columns)
    IN  IF all = <<>> THEN <<>> ELSE <<Head(all)>>

\* [col for col in required_columns if col not in data.columns]
missing_columns(columns) ==
    SelectSeq(required_columns, LAMBDA col : <<col>> \notin columns)

\* pd.read_excel: the rows of the sheet under a RangeIndex 0, 1, ...
ReadExcel(file) ==
    [i \in 1..Len(file.rows) |-> [idx |-> i - 1, cells |-> file.rows[i]]]

\* data.dropna(subset=[...]) on the three text columns
HasIdentity(r) == \A i \in 1..Len(identity_columns) : r.cells[identity_columns[i]] # NA

\* data[col].dtype == 'object': the column of the sheet holds text
IsObject(rows, col) == \E i \in 1..Len(rows) : rows[i].cells[col].t = "str"

\* astype(str) of one cell
AsStr(c) ==
    IF c.t = "str" THEN c.s
    ELSE IF c.t = "num" THEN NumStr(Val(c))
    ELSE <<"n", "a", "n">>

\* fault variant of Clean: only the commas go
clean_commas_only(s) == Replace(s, ",")

\* .str.replace(',', '').str.replace('won', '').str.replace(' ', '')
Clean(s) == Replace(Replace(Replace(s, ","), "won"), " ")

\* lines 363-365 for one cell of a column
Coerce(c, object) ==
    IF object THEN to_numeric(Clean(AsStr(c))) ELSE c

\* dropna(how='all') for the fault variant below: some numeric cell parsed
AnyNumeric(cells) == \E i \in 1..Len(numeric_columns) : cells[numeric_columns[i]].t = "num"

\* data.dropna(subset=numeric_columns): every numeric cell parsed
AllNumeric(cells) == \A i \in 1..Len(numeric_columns) : cells[numeric_columns[i]].t = "num"

TWO == RatInt(2)
FOUR == RatInt(4)
SENTINEL == RatInt(999)

\* fault variant of avg_weekly_sales: the sum over 2
avg_half(cells) ==
    RatDiv(RatAdd(RatAdd(Val(cells.week1_sales), Val(cells.week2_sales)),
                  Val(cells.week3_sales)), RatInt(2))

\* (week1 + week2 + week3) / 3
avg_weekly_sales(cells) ==
    RatDiv(RatAdd(RatAdd(Val(cells.week1_sales), Val(cells.week2_sales)),
                  Val(cells.week3_sales)), RatInt(3))

\* fault variant of coverage_weeks: no sentinel for a row without stock
coverage_stock_gated(stock, avg) ==
    IF avg.n = 0 THEN (IF stock.n = 0 THEN RatInt(0) ELSE SENTINEL) ELSE RatDiv(stock, avg)

\* fault variant of coverage_weeks: -1 as the sentinel
coverage_minus_one(stock, avg) ==
    IF avg.n = 0 THEN RatInt(-1) ELSE RatDiv(stock, avg)

\* np.where(avg == 0, 999, stock / avg)
coverage_weeks(stock, avg) ==
    IF avg.n = 0 THEN SENTINEL ELSE RatDiv(stock, avg)

\* fault variant of classify_status: the bounds taken inclusive
classify_status_le(weeks) ==
    IF RatLe(weeks, TWO) THEN "critical"
    ELSE IF RatLe(weeks, FOUR) THEN "warning"
    ELSE "good"

classify_status(weeks) ==
    IF RatLt(weeks, TWO) THEN "critical"
    ELSE IF RatLt(weeks, FOUR) THEN "warning"
    ELSE "good"

\* one row of the enriched dataset: the sheet's row under its index, the
\* numeric cells as numbers, and the three derived columns
Derived(r, avg, cov) ==
    LET c == r.cells
    IN  [idx |-> r.idx,
         store_name |-> c.store_name,
         product_name |-> c.product_name,
         product_code |-> c.product_code,
         business_unit |-> c.business_unit,
         season |-> c.season,
         unit_price |-> Val(c.unit_price),
         week1_sales |-> Val(c.week1_sales),
         week2_sales |-> Val(c.week2_sales),
         week3_sales |-> Val(c.week3_sales),
         current_stock_qty |-> Val(c.current_stock_qty),
         inventory_value |-> Val(c.inventory_value),
         avg_weekly_sales |-> avg,
         coverage_weeks |-> cov,
         status |-> classify_status(cov)]

\* lines 370-385
Enrich(r) ==
    LET avg == avg_weekly_sales(r.cells)
    IN  Derived(r, avg, coverage_weeks(Val(r.cells.current_stock_qty), avg))

\* the numeric columns whose dtype is object
ObjectColumns(rows) == {col \in Range(numeric_columns) : IsObject(rows, col)}

\* lines 360-365: every numeric column coerced
CoerceRow(r, object) ==
    [r EXCEPT !.cells =
        [col \in DOMAIN r.cells |->
            IF col \in Range(numeric_columns)
            THEN Coerce(r.cells[col], col \in object)
            ELSE r.cells[col]]]

\* fault variant of Rejects: only the first required column is looked for
RejectOnlyFirstColumn(file) ==
    LET columns == StripColumns(file.columns)
    IN  <<"store_name">> \notin columns

\* line 355: if missing_columns
Rejects(file) == missing_columns(StripColumns(file.columns)) # <<>>

\* fault variant of DropNumeric: a row goes only when no numeric cell parsed
DropAnyNumericOnly(coerced) == SelectSeq(coerced, LAMBDA r : AnyNumeric(r.cells))

\* line 367
DropNumeric(coerced) == SelectSeq(coerced, LAMBDA r : AllNumeric(r.cells))

EnrichAll(kept) == [i \in 1..Len(kept) |-> Enrich(kept[i])]

\* lines 358-367: the identity gate, the coercion, the numeric gate
Normalize(raw) ==
    LET object == ObjectColumns(raw)
        withId == SelectSeq(raw, HasIdentity)
    IN  DropNumeric([i \in 1..Len(withId) |-> CoerceRow(withId[i], object)])

\* fault variant of load_and_process_data: the exception of read_excel leaves
\* the function with neither a dataset nor a message
load_without_except(file) ==
    IF ~file.readable THEN <<NoData, NoError>>
    ELSE IF Rejects(file)
    THEN <<NoData, Error(missing_columns(StripColumns(file.columns)))>>
    ELSE <<Data(EnrichAll(Normalize(ReadExcel(file)))), NoError>>

\* the pair (data, error_msg) the function returns; the message is modelled
\* by its kind and the list of missing columns it prints. pd.read_excel raises
\* on a file it cannot read; the exception is caught (lines 389-390)
load_and_process_data(file) ==
    IF ~file.readable THEN <<NoData, ProcessingError>>
    ELSE IF Rejects(file)
    THEN <<NoData, Error(missing_columns(StripColumns(file.columns)))>>
    ELSE <<Data(EnrichAll(Normalize(ReadExcel(file)))), NoError>>

-----------------------------------------------------------------------------
(* Aggregation: the tables the menus and the e-mail report build *)

ONLINE == "ONLINE"
TOTAL == "TOTAL"

\* Python's order on the text values of the model (code point order; the
\* online store's name is Hangul and sorts after every Latin name)
LexOrder ==
    <<"23FW", "24SS", "AA", "AP", "Busan", "EQ", "FW", "Gangnam",
      "S01", "S02", "S03", "S04", "S05", "S06", "S07", "S08", "S09", "S10",
      "S11", "S12", "S13", "ZZ", "ONLINE">>

LexRank(v) == CHOOSE i \in 1..Len(LexOrder) : LexOrder[i] = v
StrLt(a, b) == LexRank(a) < LexRank(b)

\* Series.unique(): the distinct values in order of first appearance
RECURSIVE Unique(_)
Unique(s) ==
    IF s = <<>> THEN <<>>
    ELSE LET front == Unique(SubSeq(s, 1, Len(s) - 1))
             last == s[Len(s)]
         IN  IF last \in Range(front) THEN front ELSE Append(front, last)

Column(rows, col) == [i \in 1..Len(rows) |-> rows[i][col]]

\* sorted(values) raises TypeError when a missing value (a float) meets text
SortRaises(values) == NA \in Range(values) /\ Len(values) > 1

RECURSIVE Insert(_, _)
Insert(v, s) ==
    IF s = <<>> THEN <<v>>
    ELSE IF StrLt(v, Head(s)) THEN <<v>> \o s
         ELSE <<Head(s)>> \o Insert(v, Tail(s))

RECURSIVE sorted(_)
sorted(values) ==
    IF Len(values) <= 1 THEN values
    ELSE Insert(values[Len(values)], sorted(SubSeq(values, 1, Len(values) - 1)))

\* data[data[col] == v]: a missing value equals nothing, itself included
Where(rows, col, v) ==
    IF v = NA THEN <<>> ELSE SelectSeq(rows, LAMBDA r : r[col] = v)

CountStatus(rows, st) == Len(SelectSeq(rows, LAMBDA r : r.status = st))
NUnique(rows, col) == Cardinality(Range(Column(rows, col)))
SumOf(rows, col) == RatSum(Column(rows, col))
TotalSales(rows) ==
    RatAdd(RatAdd(SumOf(rows, "week1_sales"), SumOf(rows, "week2_sales")),
           SumOf(rows, "week3_sales"))

biz_order == <<"AP", "FW", "EQ">>

\* fault variant of AnalysisRow: every row that is not critical counts as good
AnalysisRowGoodOrWarning(key, rows) ==
    [key |-> key,
     n_items |-> Len(rows),
     mean_coverage |-> round1(mean(Column(rows, "coverage_weeks"))),
     critical |-> CountStatus(rows, "critical"),
     warning |-> CountStatus(rows, "warning"),
     good |-> Len(rows) - CountStatus(rows, "critical"),
     stock_qty |-> Trunc(SumOf(rows, "current_stock_qty")),
     inventory_value |-> Trunc(SumOf(rows, "inventory_value"))]

\* lines 612-621, 624-633, 701-710, 713-722: one row of the BIZ or season table
AnalysisRow(key, rows) ==
    [key |-> key,
     n_items |-> Len(rows),
     mean_coverage |-> round1(mean(Column(rows, "coverage_weeks"))),
     critical |-> CountStatus(rows, "critical"),
     warning |-> CountStatus(rows, "warning"),
     good |-> CountStatus(rows, "good"),
     stock_qty |-> Trunc(SumOf(rows, "current_stock_qty")),
     inventory_value |-> Trunc(SumOf(rows, "inventory_value"))]

\* lines 119-128, 132-141, 148-157, 160-169: one row of an e-mail summary
SummaryRow(key, rows) ==
    [key |-> key,
     n_stores |-> NUnique(rows, "store_name"),
     n_codes |-> NUnique(rows, "product_code"),
     critical |-> CountStatus(rows, "critical"),
     mean_coverage |-> round1(mean(Column(rows, "coverage_weeks"))),
     sales_qty |-> Trunc(TotalSales(rows)),
     stock_qty |-> Trunc(SumOf(rows, "current_stock_qty")),
     inventory_value |-> Trunc(SumOf(rows, "inventory_value"))]

\* lines 560-568: one row of the overview's store table
OverviewStoreRow(key, rows) ==
    [key |-> key,
     mean_coverage |-> round1(mean(Column(rows, "coverage_weeks"))),
     n_codes |-> NUnique(rows, "product_code"),
     critical |-> CountStatus(rows, "critical"),
     warning |-> CountStatus(rows, "warning"),
     good |-> CountStatus(rows, "good"),
     inventory_sum |-> SumOf(rows, "inventory_value")]

\* lines 836-845: one row of the store detail table
StoreRow(key, rows) ==
    [key |-> key,
     mean_coverage |-> round1(mean(Column(rows, "coverage_weeks"))),
     n_codes |-> NUnique(rows, "product_code"),
     critical |-> CountStatus(rows, "critical"),
     warning |-> CountStatus(rows, "warning"),
     good |-> CountStatus(rows, "good"),
     stock_qty |-> Trunc(SumOf(rows, "current_stock_qty")),
     inventory_value |-> Trunc(SumOf(rows, "inventory_value"))]

\* one table row per key: the rows of d whose column col holds the key
AnalysisRows(d, col, keys) ==
    [i \in 1..Len(keys) |-> AnalysisRow(keys[i], Where(d, col, keys[i]))]

SummaryRows(d, col, keys) ==
    [i \in 1..Len(keys) |-> SummaryRow(keys[i], Where(d, col, keys[i]))]

\* fault variant of all_biz: the canonical codes only
all_biz_canonical(d) ==
    SelectSeq(biz_order, LAMBDA b : b \in Range(Column(d, "business_unit")))

\* lines 603-606: the canonical codes present, then the others in sorted order
all_biz(d) ==
    LET available_biz ==
            SelectSeq(biz_order, LAMBDA b : b \in Range(Column(d, "business_unit")))
        other_biz ==
            SelectSeq(sorted(Unique(Column(d, "business_unit"))),
                      LAMBDA b : b \notin Range(biz_order))
    IN  available_biz \o other_biz

\* lines 608-633
biz_analysis(d) ==
    Append(AnalysisRows(d, "business_unit", all_biz(d)), AnalysisRow(TOTAL, d))

\* fault variant of season_analysis: the seasons in the order of their first row
season_analysis_first_seen(d) ==
    Append(AnalysisRows(d, "season", Unique(Column(d, "season"))), AnalysisRow(TOTAL, d))

\* lines 697-722
season_analysis(d) ==
    Append(AnalysisRows(d, "season", sorted(Unique(Column(d, "season")))),
           AnalysisRow(TOTAL, d))

\* fault variant of offline_data: the online rows stay
offline_data_all(d) == d

\* lines 554, 789: data[data[store_name] != online]
offline_data(d) == SelectSeq(d, LAMBDA r : r.store_name # ONLINE)

\* lines 556-570
overview_store_analysis(d) ==
    LET off == offline_data(d)
        stores == Unique(Column(off, "store_name"))
    IN  [i \in 1..Len(stores) |->
            OverviewStoreRow(stores[i], Where(off, "store_name", stores[i]))]

\* lines 833-848
store_analysis(d) ==
    LET off == offline_data(d)
        stores == Unique(Column(off, "store_name"))
    IN  [i \in 1..Len(stores) |-> StoreRow(stores[i], Where(off, "store_name", stores[i]))]

\* fault variant of biz_summary: a row for every code of the dataset
biz_summary_all_codes(d) ==
    Append(SummaryRows(d, "business_unit", all_biz(d)), SummaryRow(TOTAL, d))

\* lines 113-141
biz_summary(d) ==
    Append(SummaryRows(d, "business_unit",
                       SelectSeq(biz_order, LAMBDA b : b \in Range(Column(d, "business_unit")))),
           SummaryRow(TOTAL, d))

\* lines 144-169
season_summary(d) ==
    Append(SummaryRows(d, "season", sorted(Unique(Column(d, "season")))),
           SummaryRow(TOTAL, d))

\* count / total * 100 as the format :.1f shows it; total is not 0
Percent(count, total) == RoundTo1(RatMul(Rat(count, total), RatInt(100)))

\* lines 173-185: one row of the e-mail's comprehensive table
BizReportRow(key, rows) ==
    [key |-> key,
     critical_ratio |->
        IF Len(rows) > 0 THEN Percent(CountStatus(rows, "critical"), Len(rows)) ELSE RatInt(0),
     mean_coverage |-> round1(mean(Column(rows, "coverage_weeks")))]

\* lines 171-194: the canonical codes present, then TOTAL, whose ratio divides
\* by len(data) without a test (line 192); the table exists for len(data) > 0
biz_report(d) ==
    LET present == SelectSeq(biz_order, LAMBDA b : b \in Range(Column(d, "business_unit")))
    IN  Append([i \in 1..Len(present) |->
                    BizReportRow(present[i], Where(d, "business_unit", present[i]))],
               [key |-> TOTAL,
                critical_ratio |-> Percent(CountStatus(d, "critical"), Len(d)),
                mean_coverage |-> round1(mean(Column(d, "coverage_weeks")))])

\* the report's tables are built within try: sorted() on the seasons (line 145)
\* and the division by len(data) (line 192) raise before anything is sent
EmailBuildRaises(d) == SortRaises(Unique(Column(d, "season"))) \/ Len(d) = 0

-----------------------------------------------------------------------------
(* Rankings: nlargest, nsmallest, sort_values *)

\* in descending order of key, position i comes before position j; positions
\* of equal key keep their order (keep='first', and the stable sort of
\* sort_values on the short frames concerned)
BeforeDesc(keys, i, j) == RatLt(keys[j], keys[i]) \/ (keys[i] = keys[j] /\ i < j)
BeforeAsc(keys, i, j) == RatLt(keys[i], keys[j]) \/ (keys[i] = keys[j] /\ i < j)

\* sort_values(col, ascending=False): items[i] carries keys[i] (the two are
\* bound once, as values)
SortDesc(items, keys) ==
    CHOOSE result \in
        {[k \in 1..Len(its) |->
            its[CHOOSE i \in 1..Len(its) :
                    Cardinality({j \in 1..Len(its) : BeforeDesc(ks, j, i)}) = k - 1]] :
            its \in {items}, ks \in {keys}} : TRUE

\* sort_values(col)
SortAsc(items, keys) ==
    CHOOSE result \in
        {[k \in 1..Len(its) |->
            its[CHOOSE i \in 1..Len(its) :
                    Cardinality({j \in 1..Len(its) : BeforeAsc(ks, j, i)}) = k - 1]] :
            its \in {items}, ks \in {keys}} : TRUE

\* .head(n), .iloc[:n]
head(s, n) == SubSeq(s, 1, IF n < Len(s) THEN n ELSE Len(s))

\* fault variant of nlargest: among equal keys the last occurrences win
nlargest_keep_last(n, items, keys) ==
    head([k \in 1..Len(items) |->
            items[CHOOSE i \in 1..Len(items) :
                    Cardinality({j \in 1..Len(items) :
                        RatLt(keys[i], keys[j]) \/ (keys[i] = keys[j] /\ j > i)}) = k - 1]], n)

\* DataFrame.nlargest(n, col): the first n in descending order of the column
nlargest(n, items, keys) == head(SortDesc(items, keys), n)

\* DataFrame.nsmallest(n, col)
nsmallest(n, items, keys) == head(SortAsc(items, keys), n)

\* the first column of a table: the store or the code of each row
Keys(t) == [i \in 1..Len(t) |-> t[i].key]

\* a column of counts as numbers
Counts(rows, col) == [i \in 1..Len(rows) |-> RatInt(rows[i][col])]

\* lines 572-585: with six stores or more, the stores at places 2 to 6 of the
\* ranking by inventory amount, shown by their number of good items; with
\* fewer, the five stores with most good items
good_stores(store_df) ==
    LET store_sales_ranking == SortDesc(store_df, Column(store_df, "inventory_sum"))
        top_stores_2to6 == SubSeq(store_sales_ranking, 2, 6)
    IN  IF Len(store_sales_ranking) >= 6
        THEN SortDesc(top_stores_2to6, Counts(top_stores_2to6, "good"))
        ELSE nlargest(5, store_df, Counts(store_df, "good"))

\* lines 587-591
warning_stores(store_df) == nlargest(5, store_df, Counts(store_df, "warning"))

\* lines 593-597
critical_stores(store_df) == nlargest(5, store_df, Counts(store_df, "critical"))

\* line 1093: the critical rows counted by BIZ (groupby drops missing keys
\* and sorts the others), the codes in descending order of their count
critical_by_biz(d) ==
    LET critical == SelectSeq(d, LAMBDA r : r.status = "critical" /\ r.business_unit # NA)
        codes == sorted(Unique(Column(critical, "business_unit")))
    IN  SortDesc(codes,
                 [i \in 1..Len(codes) |->
                    RatInt(Len(Where(critical, "business_unit", codes[i])))])

\* lines 1096-1129: the table of critical items by BIZ, for len(data) > 0
biz_critical_table(d) ==
    LET by_biz == critical_by_biz(d)
        available_biz == SelectSeq(biz_order, LAMBDA b : b \in Range(by_biz))
        other_biz == SelectSeq(by_biz, LAMBDA b : b \notin Range(biz_order))
        all == available_biz \o other_biz
        Row(key, rows) ==
            [key |-> key,
             critical |-> CountStatus(rows, "critical"),
             critical_ratio |-> Percent(CountStatus(rows, "critical"), Len(d)),
             stock_qty |-> Trunc(SumOf(rows, "current_stock_qty")),
             inventory_value |-> Trunc(SumOf(rows, "inventory_value"))]
    IN  IF by_biz = <<>> THEN <<>>
        ELSE Append([i \in 1..Len(all) |-> Row(all[i], Where(d, "business_unit", all[i]))],
                    Row(TOTAL, d))

\* .tail(n)
tail(s, n) == SubSeq(s, IF n < Len(s) THEN Len(s) - n + 1 ELSE 1, Len(s))

\* line 1144: the mean coverage of each offline store (groupby takes the
\* stores in sorted order), in ascending order of the mean as computed
store_coverage(d) ==
    LET off == offline_data(d)
        stores == sorted(Unique(Column(off, "store_name")))
        means == [i \in 1..Len(stores) |->
                    Val(mean(Column(Where(off, "store_name", stores[i]), "coverage_weeks")))]
    IN  SortAsc([i \in 1..Len(stores) |-> [key |-> stores[i], mean_coverage |-> means[i]]],
                means)

\* fault variant of low_coverage_stores: a mean of 4 weeks counts as low
low_coverage_stores_inclusive(d) ==
    head(SelectSeq(store_coverage(d), LAMBDA r : RatLe(r.mean_coverage, FOUR)), 10)

\* lines 1145, 1151: store_coverage[store_coverage < 4].head(10)
low_coverage_stores(d) ==
    head(SelectSeq(store_coverage(d), LAMBDA r : RatLt(r.mean_coverage, FOUR)), 10)

\* line 1165: store_coverage.tail(10)
high_coverage_stores(d) == tail(store_coverage(d), 10)

\* lines 790-791: the eleven offline stores with the largest inventory amount
top_stores(d) ==
    LET off == offline_data(d)
        stores == sorted(Unique(Column(off, "store_name")))
    IN  head(SortDesc(stores,
                      [i \in 1..Len(stores) |->
                        SumOf(Where(off, "store_name", stores[i]), "inventory_value")]), 11)

\* fault variant of charted_stores: the first ten of top_stores
charted_stores_from_first(d) == sorted(head(top_stores(d), 10))

\* lines 795-797, 816: the stores of the two charts, top_stores[1:11], which
\* groupby takes in sorted order
charted_stores(d) == sorted(SubSeq(top_stores(d), 2, Len(top_stores(d))))

\* lines 913-919: pd.cut into the intervals (0, 2], (2, 4], (4, 8], (8, 12],
\* (12, 16], (16, 20], (20, 999] of the rows below the sentinel, and the
\* number of rows in each
bin_edges == <<0, 2, 4, 8, 12, 16, 20, 999>>

coverage_bins(d) ==
    LET coverage_data == SelectSeq(d, LAMBDA r : RatLt(r.coverage_weeks, SENTINEL))
    IN  [b \in 1..7 |->
            Len(SelectSeq(coverage_data,
                          LAMBDA r : /\ RatLt(RatInt(bin_edges[b]), r.coverage_weeks)
                                     /\ RatLe(r.coverage_weeks, RatInt(bin_edges[b + 1]))))]

\* lines 1184, 1207, 1231, 1254: the ten items of a BIZ and a status that sell most
top_by_sales(d, biz, status) ==
    LET candidates == SelectSeq(Where(d, "business_unit", biz), LAMBDA r : r.status = status)
    IN  nlargest(10, Column(candidates, "idx"), Column(candidates, "avg_weekly_sales"))

\* fault variant of high_coverage: the rows at the sentinel are candidates too
high_coverage_unfiltered(d, biz) ==
    LET candidates == Where(d, "business_unit", biz)
    IN  nlargest(10, Column(candidates, "idx"), Column(candidates, "coverage_weeks"))

\* lines 1277, 1319: the ten items of a BIZ with most coverage below the sentinel
high_coverage(d, biz) ==
    LET candidates == SelectSeq(Where(d, "business_unit", biz),
                                LAMBDA r : RatLt(r.coverage_weeks, SENTINEL))
    IN  nlargest(10, Column(candidates, "idx"), Column(candidates, "coverage_weeks"))

\* lines 1298, 1340: the ten items of a BIZ with least coverage
low_coverage(d, biz) ==
    LET candidates == Where(d, "business_unit", biz)
    IN  nsmallest(10, Column(candidates, "idx"), Column(candidates, "coverage_weeks"))

-----------------------------------------------------------------------------
(* The script: state and steps *)

VARIABLES
    uploaded_file,  \* the sheet in the file uploader, or NoFile
    menu,           \* the selected menu
    data,           \* the enriched dataset, or NoData
    error_msg,      \* NoError, or the missing columns the error message lists
    table,          \* the summary table the selected menu displays
    metrics,        \* the ratio and mean the selected menu displays as metrics
    views,          \* the rankings the selected menu displays
    raised,         \* the script run stopped on an uncaught exception
    mail            \* the outcome and tables of the last send_email_report

vars == <<uploaded_file, menu, data, error_msg, table, metrics, views, raised, mail>>

NoFile == [columns |-> {}, rows |-> <<>>, none |-> TRUE, readable |-> FALSE]
File(columns, rows) == [columns |-> columns, rows |-> rows, none |-> FALSE, readable |-> TRUE]

\* a file pd.read_excel cannot read
Unreadable == [columns |-> {}, rows |-> <<>>, none |-> FALSE, readable |-> FALSE]

\* what send_email_report returned and built: success is "none" before any
\* call, step is the statement that raised ("ok" when none did), sent tells
\* whether server.send_message returned
NoMail ==
    [success |-> "none", step |-> "none", sent |-> FALSE,
     biz_summary |-> <<>>, season_summary |-> <<>>, biz_report |-> <<>>]

Menus == {"overview", "biz", "season", "store", "detail", "report", "email"}

\* a metric that is not displayed
Absent == [t |-> "none", n |-> 0, d |-> 1, s |-> <<>>]

NoMetrics ==
    [critical_ratio |-> Absent, avg_coverage |-> Absent, html_critical_ratio |-> Absent,
     coverage_bins |-> <<>>]

NoViews ==
    [good_stores |-> <<>>, warning_stores |-> <<>>, critical_stores |-> <<>>,
     charted_stores |-> <<>>, low_coverage_stores |-> <<>>, high_coverage_stores |-> <<>>,
     biz_critical |-> <<>>,
     ap_critical |-> <<>>, ap_good |-> <<>>, ap_high_coverage |-> <<>>, ap_low_coverage |-> <<>>,
     fw_critical |-> <<>>, fw_good |-> <<>>, fw_high_coverage |-> <<>>, fw_low_coverage |-> <<>>]

\* building the page of menu m over dataset d raises: the overview sorts a
\* frame without columns when no offline row exists (line 573), the BIZ and
\* season menus sort text with a missing value (lines 605, 697), the report
\* (line 1032) and the HTML report of the e-mail menu (lines 92, 1511) divide
\* by len(data), the detail menu sorts the seasons and the codes for its
\* select boxes (lines 941, 947)
MenuRaises(m, d) ==
    CASE m = "overview" -> offline_data(d) = <<>>
      [] m = "biz"      -> SortRaises(Unique(Column(d, "business_unit")))
      [] m = "season"   -> SortRaises(Unique(Column(d, "season")))
      [] m = "detail"   -> \/ SortRaises(Unique(Column(d, "season")))
                           \/ SortRaises(Unique(Column(d, "business_unit")))
      [] m = "report"   -> Len(d) = 0
      [] m = "email"    -> Len(d) = 0
      [] OTHER          -> FALSE

\* the metrics menu m displays before its page is complete or raises:
\* lines 464-466 (overview), 913-919 (treemap of the detail menu), 1031-1037
\* (report), 1371 and 92 (e-mail menu and its HTML report)
MenuMetrics(m, d) ==
    LET avg_coverage == round1(mean(Column(d, "coverage_weeks")))
        ratio == IF Len(d) = 0 THEN Absent
                 ELSE Num(Percent(CountStatus(d, "critical"), Len(d)))
    IN  CASE m = "overview" -> [NoMetrics EXCEPT !.avg_coverage = avg_coverage]
          [] m = "detail"   -> [NoMetrics EXCEPT !.coverage_bins = coverage_bins(d)]
          [] m = "report"   -> IF Len(d) = 0 THEN NoMetrics
                               ELSE [NoMetrics EXCEPT !.critical_ratio = ratio,
                                                      !.avg_coverage = avg_coverage]
          [] m = "email"    -> [NoMetrics EXCEPT !.avg_coverage = avg_coverage,
                                                 !.html_critical_ratio = ratio]
          [] OTHER          -> NoMetrics

\* the rankings of a page that was built to its end
MenuViews(m, d) ==
    CASE m = "overview" ->
            LET store_df == overview_store_analysis(d)
            IN  [NoViews EXCEPT !.good_stores = Keys(good_stores(store_df)),
                                !.warning_stores = Keys(warning_stores(store_df)),
                                !.critical_stores = Keys(critical_stores(store_df))]
      [] m = "store" -> [NoViews EXCEPT !.charted_stores = charted_stores(d)]
      [] m = "report" ->
            [NoViews EXCEPT !.biz_critical = Keys(biz_critical_table(d)),
                            !.low_coverage_stores = Keys(low_coverage_stores(d)),
                            !.high_coverage_stores = Keys(high_coverage_stores(d)),
                            !.ap_critical = top_by_sales(d, "AP", "critical"),
                            !.ap_good = top_by_sales(d, "AP", "good"),
                            !.ap_high_coverage = high_coverage(d, "AP"),
                            !.ap_low_coverage = low_coverage(d, "AP"),
                            !.fw_critical = top_by_sales(d, "FW", "critical"),
                            !.fw_good = top_by_sales(d, "FW", "good"),
                            !.fw_high_coverage = high_coverage(d, "FW"),
                            !.fw_low_coverage = low_coverage(d, "FW")]
      [] OTHER -> NoViews

MenuTable(m, d) ==
    CASE m = "overview" -> overview_store_analysis(d)
      [] m = "biz"      -> biz_analysis(d)
      [] m = "season"   -> season_analysis(d)
      [] m = "store"    -> store_analysis(d)
      [] OTHER          -> <<>>

\* fault variant of Run: the overview's filter on offline rows is kept in data
RunKeepingOfflineRows(file, m) ==
    \E res \in {load_and_process_data(file)} :
        /\ data' = IF res[2].none /\ m = "overview"
                   THEN Data(offline_data(res[1].rows)) ELSE res[1]
        /\ error_msg' = res[2]
        /\ menu' = IF res[2].none THEN m ELSE "overview"
        /\ table' = <<>>
        /\ metrics' = NoMetrics
        /\ views' = NoViews
        /\ raised' = FALSE
        /\ mail' = NoMail

\* one run of the script (lines 419-447): load the file, then show the error
\* or the selected menu; the menus read data and assign nothing to it
Run(file, m) ==
    \E res \in {load_and_process_data(file)} :
        /\ data' = res[1]
        /\ error_msg' = res[2]
        /\ IF ~res[2].none
           THEN /\ menu' = "overview"
                /\ table' = <<>>
                /\ metrics' = NoMetrics
                /\ views' = NoViews
                /\ raised' = FALSE
           ELSE /\ menu' = m
                /\ metrics' = MenuMetrics(m, res[1].rows)
                /\ \E exc \in {MenuRaises(m, res[1].rows)} :
                    /\ raised' = exc
                    /\ table' = IF exc THEN <<>> ELSE MenuTable(m, res[1].rows)
                    /\ views' = IF exc THEN NoViews ELSE MenuViews(m, res[1].rows)
        /\ mail' = NoMail

Init ==
    /\ uploaded_file = NoFile
    /\ menu = "overview"
    /\ data = NoData
    /\ error_msg = NoError
    /\ table = <<>>
    /\ metrics = NoMetrics
    /\ views = NoViews
    /\ raised = FALSE
    /\ mail = NoMail

\* a file is put in the uploader: the script runs with the first menu selected
Upload(files) ==
    /\ uploaded_file.none
    /\ \E f \in files :
        /\ uploaded_file' = f
        /\ Run(f, "overview")

\* another menu is selected (the radio exists only after a successful load)
SelectMenu ==
    /\ ~uploaded_file.none
    /\ error_msg.none
    /\ \E m \in Menus :
        /\ m # menu
        /\ Run(uploaded_file, m)
    /\ UNCHANGED uploaded_file

\* lines 334-338: the statement of the SMTP dialogue that raises, "ok" for none
SmtpOutcomes == {"connect", "starttls", "login", "send", "quit", "ok"}

\* fault variant of send_email_report: success is reported once logged in
send_email_report_early(d, outcome) ==
    IF EmailBuildRaises(d)
    THEN [NoMail EXCEPT !.success = "no", !.step = "build"]
    ELSE [NoMail EXCEPT !.success = IF outcome \in {"send", "quit", "ok"} THEN "yes" ELSE "no",
                        !.step = outcome,
                        !.sent = outcome \in {"quit", "ok"}]

\* lines 104-343: the tables are built, the message is sent; whatever raises
\* on the way is caught (lines 342-343) and gives (False, reason); (True, ...)
\* is returned after server.quit()
send_email_report(d, outcome) ==
    IF EmailBuildRaises(d)
    THEN [NoMail EXCEPT !.success = "no", !.step = "build"]
    ELSE IF outcome = "ok"
         THEN [success |-> "yes", step |-> "ok", sent |-> TRUE,
               biz_summary |-> biz_summary(d),
               season_summary |-> season_summary(d),
               biz_report |-> biz_report(d)]
         ELSE [NoMail EXCEPT !.success = "no", !.step = outcome, !.sent = (outcome = "quit")]

\* the e-mail form is submitted (lines 1396-1412): with a field left empty
\* nothing is sent, otherwise send_email_report is called
SubmitEmail ==
    /\ ~uploaded_file.none
    /\ error_msg.none
    /\ menu = "email"
    /\ \E filled \in BOOLEAN, outcome \in SmtpOutcomes :
        mail' = IF filled THEN send_email_report(data.rows, outcome) ELSE NoMail
    /\ UNCHANGED <<uploaded_file, menu, data, error_msg, table, metrics, views, raised>>

\* the file is taken out of the uploader: the start page (lines 1520-1521)
RemoveFile ==
    /\ ~uploaded_file.none
    /\ uploaded_file' = NoFile
    /\ menu' = "overview"
    /\ data' = NoData
    /\ error_msg' = NoError
    /\ table' = <<>>
    /\ metrics' = NoMetrics
    /\ views' = NoViews
    /\ raised' = FALSE
    /\ mail' = NoMail

-----------------------------------------------------------------------------
(* The sheets explored *)

MaxRows == 2
MaxSchemaRows == 1
MaxStores == 12
MaxReportRows == 3
MaxSentinelRows == 2

SeqsUpTo(S, n) == UNION {[1..k -> S] : k \in 0..n}

N(i) == Num(RatInt(i))
Half(i) == Num(Rat(i, 2))

ExactColumns == {<<required_columns[i]>> : i \in 1..Len(required_columns)}

BaseRow ==
    [store_name |-> "Gangnam", product_name |-> "N1", product_code |-> "P1",
     business_unit |-> "AP", season |-> "23FW",
     unit_price |-> N(1), week1_sales |-> N(1), week2_sales |-> N(1),
     week3_sales |-> N(1), current_stock_qty |-> N(1), inventory_value |-> N(1)]

\* sheets for the coverage computation: sales and stock vary
SalesTriples == {<<0, 0, 0>>, <<1, 1, 1>>, <<1, 0, 0>>, <<2, 2, 1>>, <<-1, 0, 0>>}
Stocks == {-1, 0, 2, 4}

CoverageRows ==
    {[BaseRow EXCEPT !.week1_sales = N(t[1]), !.week2_sales = N(t[2]),
                     !.week3_sales = N(t[3]), !.current_stock_qty = N(k)] :
        t \in SalesTriples, k \in Stocks}

CoverageFiles == {File(ExactColumns, r) : r \in SeqsUpTo(CoverageRows, MaxRows)}

\* sheets for normalisation and aggregation: stores, business units, seasons,
\* fractional and formatted amounts, missing and unparseable cells
SheetRows ==
    {BaseRow,
     [BaseRow EXCEPT !.store_name = "Busan", !.product_code = "P2", !.business_unit = "ZZ",
                     !.season = "24SS", !.current_stock_qty = N(5),
                     !.inventory_value = Half(1)],
     [BaseRow EXCEPT !.store_name = ONLINE, !.business_unit = "FW",
                     !.current_stock_qty = N(2), !.inventory_value = Half(3)],
     [BaseRow EXCEPT !.store_name = "Busan", !.inventory_value = Half(1)],
     [BaseRow EXCEPT !.business_unit = NA, !.inventory_value = N(2)],
     [BaseRow EXCEPT !.season = NA],
     [BaseRow EXCEPT !.store_name = NA],
     [BaseRow EXCEPT !.product_name = NA],
     [BaseRow EXCEPT !.product_code = NA],
     [BaseRow EXCEPT !.current_stock_qty = NaN],
     [BaseRow EXCEPT !.inventory_value = Txt(<<"1", ",", "0", "0", "0", "won">>)],
     [BaseRow EXCEPT !.week1_sales = Txt(<<" ", "1", " ", "0", "0", "0", " ">>)],
     [BaseRow EXCEPT !.unit_price = Txt(<<"1", ".", "5">>)]}
    \cup {[BaseRow EXCEPT ![numeric_columns[i]] = Txt(<<"x">>)] : i \in 1..Len(numeric_columns)}

SheetFiles == {File(ExactColumns, r) : r \in SeqsUpTo(SheetRows, MaxRows)} \cup {Unreadable}

\* sheets for validation: required columns absent, other columns present,
\* names padded with white space or split by it
AbsentCandidates == {"store_name", "business_unit", "season", "week2_sales", "inventory_value"}

Headers ==
    {({<<c>> : c \in (Range(required_columns) \ absent) \ {"product_code", "unit_price"}}
        \cup {code, price} \cup extra) :
        absent \in SUBSET AbsentCandidates,
        code \in {<<"product_code">>, <<" ", "product_code">>, <<"product_code", " ">>,
                  <<" ", "product_code", " ">>},
        price \in {<<"unit_price">>, <<"unit", " ", "price">>},
        extra \in SUBSET {<<"memo">>}}

SchemaRows == {BaseRow, [BaseRow EXCEPT !.week3_sales = Txt(<<"x">>)]}

SchemaFiles == {File(h, r) : h \in Headers, r \in SeqsUpTo(SchemaRows, MaxSchemaRows)}

\* sheets for the store rankings: k stores of one row each, store i with the
\* inventory amount i, the rows starting at store r + 1 and wrapping round;
\* the pattern sets status, sales and BIZ:
\*   1  every row critical, AP, the same sales
\*   2  critical, warning, good in turn, AP, and a last row of the online
\*      store with the largest inventory amount
\*   3  good, sales 1 or 2 a week in turn, AP and FW in turn of three
StoreNames ==
    <<"S01", "S02", "S03", "S04", "S05", "S06", "S07", "S08", "S09", "S10",
      "S11", "S12", "S13">>

Patterns == 1..3

StoreSheetRow(i, pattern) ==
    [BaseRow EXCEPT
        !.store_name = StoreNames[i],
        !.inventory_value = N(i),
        !.business_unit = IF pattern = 3 /\ i % 3 = 0 THEN "FW" ELSE "AP",
        !.week1_sales = IF pattern = 3 THEN N(1 + (i % 2)) ELSE N(1),
        !.week2_sales = IF pattern = 3 THEN N(1 + (i % 2)) ELSE N(1),
        !.week3_sales = IF pattern = 3 THEN N(1 + (i % 2)) ELSE N(1),
        !.current_stock_qty =
            IF pattern = 1 THEN N(0)
            ELSE IF pattern = 2 THEN N(CASE i % 3 = 1 -> 1 [] i % 3 = 2 -> 2 [] OTHER -> 4)
            ELSE N(8)]

OnlineRow == [BaseRow EXCEPT !.store_name = ONLINE, !.inventory_value = N(100)]

StoreFiles ==
    {File(ExactColumns,
          [j \in 1..k |-> StoreSheetRow(((j - 1 + r) % k) + 1, pattern)]
            \o (IF pattern = 2 THEN <<OnlineRow>> ELSE <<>>)) :
        k \in 1..MaxStores, r \in 0..2, pattern \in Patterns}

\* sheets for the report's tables by BIZ: canonical and other codes, critical
\* (no stock) and good rows
ReportRows ==
    {[BaseRow EXCEPT !.business_unit = "AA", !.current_stock_qty = N(0)],
     [BaseRow EXCEPT !.business_unit = "ZZ", !.current_stock_qty = N(0)],
     [BaseRow EXCEPT !.business_unit = "ZZ", !.current_stock_qty = N(4)],
     [BaseRow EXCEPT !.business_unit = "FW", !.current_stock_qty = N(0)],
     [BaseRow EXCEPT !.business_unit = "AP", !.current_stock_qty = N(0)],
     [BaseRow EXCEPT !.business_unit = "EQ", !.current_stock_qty = N(4)]}

ReportFiles == {File(ExactColumns, r) : r \in SeqsUpTo(ReportRows, MaxReportRows)}

\* sheets for the sentinel: rows that sell nothing, rows that sell with a
\* stock of 999 weeks and more
SentinelRows ==
    {[BaseRow EXCEPT !.week1_sales = N(t), !.week2_sales = N(t), !.week3_sales = N(t),
                     !.current_stock_qty = N(k)] :
        t \in {0, 1}, k \in {0, 4, 999, 1000}}
    \cup {[BaseRow EXCEPT !.business_unit = "FW", !.week1_sales = N(t), !.week2_sales = N(t),
                          !.week3_sales = N(t), !.current_stock_qty = N(8)] : t \in {0, 1}}

SentinelFiles == {File(ExactColumns, r) : r \in SeqsUpTo(SentinelRows, MaxSentinelRows)}

-----------------------------------------------------------------------------
(* Specifications *)

Next ==
    \/ Upload(SheetFiles)
    \/ SelectMenu
    \/ SubmitEmail
    \/ RemoveFile

Spec == Init /\ [][Next]_vars

NextCoverage ==
    \/ Upload(CoverageFiles)
    \/ SelectMenu
    \/ SubmitEmail
    \/ RemoveFile

SpecCoverage == Init /\ [][NextCoverage]_vars

NextSchema ==
    \/ Upload(SchemaFiles)
    \/ SelectMenu
    \/ SubmitEmail
    \/ RemoveFile

SpecSchema == Init /\ [][NextSchema]_vars

NextStores ==
    \/ Upload(StoreFiles)
    \/ SelectMenu
    \/ SubmitEmail
    \/ RemoveFile

SpecStores == Init /\ [][NextStores]_vars

NextReport ==
    \/ Upload(ReportFiles)
    \/ SelectMenu
    \/ SubmitEmail
    \/ RemoveFile

SpecReport == Init /\ [][NextReport]_vars

NextSentinel ==
    \/ Upload(SentinelFiles)
    \/ SelectMenu
    \/ SubmitEmail
    \/ RemoveFile

SpecSentinel == Init /\ [][NextSentinel]_vars

-----------------------------------------------------------------------------
(* Properties of the coverage computation, under SpecCoverage *)

Rows == data.rows
RowIdx == 1..Len(data.rows)
Sheet(i) == uploaded_file.rows[i]
Three == RatInt(3)
Zero == RatInt(0)

\* C1: every row of the enriched dataset has the status its coverage_weeks
\* falls under: below 2 critical, from 2 to below 4 warning, 4 and above good.
C1_StatusFollowsThresholds ==
    \A i \in RowIdx :
        LET w == Rows[i].coverage_weeks
        IN  /\ w.n < 2 * w.d => Rows[i].status = "critical"
            /\ (w.n >= 2 * w.d /\ w.n < 4 * w.d) => Rows[i].status = "warning"
            /\ w.n >= 4 * w.d => Rows[i].status = "good"

\* a dataset holding a row at exactly 2 weeks (warning) and one at exactly 4 (good)
C1_Witness ==
    \E i, j \in RowIdx :
        /\ Rows[i].coverage_weeks = RatInt(2) /\ Rows[i].status = "warning"
        /\ Rows[j].coverage_weeks = RatInt(4) /\ Rows[j].status = "good"

\* C2: a row whose three weekly sales are all 0 has coverage_weeks 999 and
\* status good, whatever its stock, 0 included.
C2_ZeroSalesSentinel ==
    \A i \in RowIdx :
        (Rows[i].week1_sales = Zero /\ Rows[i].week2_sales = Zero /\ Rows[i].week3_sales = Zero)
            => (Rows[i].coverage_weeks = RatInt(999) /\ Rows[i].status = "good")

\* a zero-sales row with no stock, loaded with the sentinel
C2_Witness ==
    \E i \in RowIdx :
        /\ Rows[i].week1_sales = Zero /\ Rows[i].week2_sales = Zero
        /\ Rows[i].week3_sales = Zero /\ Rows[i].current_stock_qty = Zero
        /\ Rows[i].coverage_weeks = RatInt(999)

\* C3: avg_weekly_sales is a third of the three weekly sales, and where it is
\* not 0, coverage_weeks times avg_weekly_sales is the stock exactly: nothing
\* is rounded or clamped.
C3_AverageAndCoverageExact ==
    \A i \in RowIdx :
        LET r == Rows[i]
            total == RatAdd(RatAdd(r.week1_sales, r.week2_sales), r.week3_sales)
        IN  /\ RatMul(r.avg_weekly_sales, Three) = total
            /\ r.avg_weekly_sales # Zero
                => r.coverage_weeks.n * total.n * r.current_stock_qty.d
                     = 3 * r.current_stock_qty.n * r.coverage_weeks.d * total.d

\* a row whose coverage is not a whole number of weeks
C3_Witness ==
    \E i \in RowIdx :
        /\ Rows[i].avg_weekly_sales = Rat(5, 3)
        /\ Rows[i].coverage_weeks = Rat(12, 5)

\* C4 as stated: no row of an enriched dataset has a negative coverage_weeks.
\* A negative stock or a negative sales total passes the numeric gate (lines
\* 365-367) and gives a negative quotient.
C4_NeverNegative ==
    \A i \in RowIdx : Rows[i].coverage_weeks.n >= 0

NonNegativeInputs(r) ==
    /\ r.week1_sales.n >= 0 /\ r.week2_sales.n >= 0 /\ r.week3_sales.n >= 0
    /\ r.current_stock_qty.n >= 0

\* C4, amended: a row whose stock and three weekly sales are all non-negative
\* has a coverage_weeks that is non-negative, and it is the sentinel 999
\* exactly when the row sold nothing.
C4_NonNegativeForNonNegativeInputs ==
    \A i \in RowIdx :
        NonNegativeInputs(Rows[i]) =>
            /\ Rows[i].coverage_weeks.n >= 0
            /\ Rows[i].avg_weekly_sales = Zero => Rows[i].coverage_weeks = RatInt(999)

\* a dataset with a negative-coverage row beside a non-negative one
C4_Witness ==
    \E i, j \in RowIdx :
        /\ Rows[i].coverage_weeks.n < 0
        /\ NonNegativeInputs(Rows[j]) /\ Rows[j].avg_weekly_sales = Zero
        /\ Rows[j].coverage_weeks.n >= 0

-----------------------------------------------------------------------------
(* Properties of validation, under SpecSchema *)

\* the required columns no header of the sheet names, white space at the ends
\* of a header aside
AbsentRequired(file) ==
    {c \in Range(required_columns) : \A name \in file.columns : strip(name) # <<c>>}

Position(col) == CHOOSE i \in 1..Len(required_columns) : required_columns[i] = col

\* C5: a sheet is refused exactly when a required column is absent, and the
\* message then lists every absent required column, each once, in the order of
\* the required-column list. The list is thereby a function of the set of
\* absent columns alone: other columns of the sheet do not change it.
C5_AllMissingColumnsListed ==
    ~uploaded_file.none =>
        /\ (AbsentRequired(uploaded_file) # {}) <=> ~error_msg.none
        /\ Range(error_msg.missing) = AbsentRequired(uploaded_file)
        /\ \A i, j \in 1..Len(error_msg.missing) :
            i < j => Position(error_msg.missing[i]) < Position(error_msg.missing[j])

\* business_unit and season reported together, for a sheet with a further column
C5_Witness ==
    /\ error_msg.missing = <<"business_unit", "season">>
    /\ <<"memo">> \in uploaded_file.columns

\* C6: for a sheet with a required column absent the script holds no dataset
\* and an error, and shows no table, runs no menu and sends no e-mail.
C6_MissingColumnRejectsSheet ==
    (~uploaded_file.none /\ AbsentRequired(uploaded_file) # {}) =>
        /\ data = NoData
        /\ ~error_msg.none
        /\ table = <<>>
        /\ ~raised
        /\ mail = NoMail

\* a sheet with rows, refused for one absent column
C6_Witness ==
    /\ Len(uploaded_file.rows) > 0
    /\ AbsentRequired(uploaded_file) = {"inventory_value"}
    /\ data = NoData
    /\ ~error_msg.none

-----------------------------------------------------------------------------
(* Properties of normalisation and aggregation, under Spec *)

Loaded == ~uploaded_file.none /\ error_msg.none

\* the cell is a number, or text that is a number once commas, the currency
\* token and spaces are taken out
ParsesToNumber(c) == c.t = "num" \/ (c.t = "str" /\ to_numeric(Clean(c.s)).t = "num")

Usable(row) ==
    /\ row.store_name # NA /\ row.product_name # NA /\ row.product_code # NA
    /\ \A i \in 1..Len(numeric_columns) : ParsesToNumber(row[numeric_columns[i]])

\* C7: the enriched dataset holds exactly the rows of the sheet whose three
\* identity fields are present and whose six numeric fields all parse, in the
\* order of the sheet, each with the identity it had in the sheet.
C7_ExactlyUsableRowsInOrder ==
    Loaded =>
        /\ {Rows[k].idx + 1 : k \in RowIdx}
             = {i \in 1..Len(uploaded_file.rows) : Usable(Sheet(i))}
        /\ \A k, l \in RowIdx : k < l => Rows[k].idx < Rows[l].idx
        /\ \A k \in RowIdx :
            /\ Rows[k].store_name = Sheet(Rows[k].idx + 1).store_name
            /\ Rows[k].product_code = Sheet(Rows[k].idx + 1).product_code
            /\ Rows[k].business_unit = Sheet(Rows[k].idx + 1).business_unit

\* a first row with one unparseable numeric field is gone, the second is kept
C7_Witness ==
    /\ Loaded
    /\ Len(uploaded_file.rows) = 2
    /\ Sheet(1).store_name # NA /\ Sheet(1).product_name # NA /\ Sheet(1).product_code # NA
    /\ Cardinality({i \in 1..Len(numeric_columns) :
                        ~ParsesToNumber(Sheet(1)[numeric_columns[i]])}) = 1
    /\ Len(Rows) = 1 /\ Rows[1].idx = 1

\* C8 as stated: the caller can tell from what load_and_process_data returns
\* how many rows were dropped, that is, two sheets for which it returns the
\* same pair lost the same number of rows. It returns only (data, None): a
\* sheet and the same sheet followed by a bad row give the same pair.
C8_DroppedCountObservable ==
    Loaded =>
        \A f \in SheetFiles :
            load_and_process_data(f) = <<data, error_msg>>
                => Len(f.rows) - Len(Rows) = Len(uploaded_file.rows) - Len(Rows)

Front(t) == SubSeq(t, 1, Len(t) - 1)
Last(t) == t[Len(t)]
Amounts(t) == [i \in 1..Len(t) |-> t[i].inventory_value]

SumConsistent(t) ==
    /\ Last(t).inventory_value = IntSum(Amounts(Front(t)))
    /\ Last(t).inventory_value = Trunc(SumOf(Rows, "inventory_value"))

\* C9 as stated: in the BIZ table, the season table and the two e-mail
\* summaries the TOTAL row's inventory amount is the sum of the amounts of the
\* rows above it, and the amount of the whole dataset (as a whole number).
C9_TotalEqualsSumOfGroups ==
    /\ (Loaded /\ ~raised /\ menu \in {"biz", "season"}) => SumConsistent(table)
    /\ mail.success = "yes" =>
        (SumConsistent(mail.biz_summary) /\ SumConsistent(mail.season_summary))

OnePerValue(t, values) ==
    /\ Range(Keys(t)) = values
    /\ Len(t) = Cardinality(values)

OnePerValueThenTotal(t, values) ==
    /\ Len(t) >= 1
    /\ Last(t).key = TOTAL
    /\ OnePerValue(Front(t), values)

ValuesOf(col) == Range(Column(Rows, col))

TotalOverDataset(row) ==
    /\ row.critical = Cardinality({k \in RowIdx : Rows[k].status = "critical"})
    /\ row.inventory_value = Trunc(SumOf(Rows, "inventory_value"))

-----------------------------------------------------------------------------
(* Properties of the ordering of summaries *)

Canonical(code) == code \in Range(biz_order)
CanonicalPosition(code) == CHOOSE i \in 1..Len(biz_order) : biz_order[i] = code

\* the codes are in the order AP, FW, EQ, then the others in ascending order
BizOrdered(codes) ==
    \A i, j \in 1..Len(codes) :
        i < j =>
            /\ Canonical(codes[j]) =>
                (Canonical(codes[i]) /\ CanonicalPosition(codes[i]) < CanonicalPosition(codes[j]))
            /\ (~Canonical(codes[i]) /\ ~Canonical(codes[j])) => StrLt(codes[i], codes[j])

\* C11 as stated: the summaries by business unit (the BIZ analysis table and the
\* report's table of critical items by BIZ) list the canonical codes present in
\* the order AP, FW, EQ, then every other code in ascending lexical order. The
\* report's table takes the other codes in descending order of their number of
\* critical items (lines 1093, 1101).
C11_CanonicalThenLexical ==
    /\ (Loaded /\ ~raised /\ menu = "biz") =>
        /\ Range(Keys(Front(table))) = ValuesOf("business_unit")
        /\ BizOrdered(Keys(Front(table)))
    /\ (Loaded /\ ~raised /\ menu = "report" /\ views.biz_critical # <<>>) =>
        BizOrdered(Front(views.biz_critical))

-----------------------------------------------------------------------------
(* Properties of the figures over no row *)

ZeroMetric == Num(RatInt(0))

\* C12 as stated: over an enriched dataset without rows the ratio of critical
\* rows is displayed as 0 by the report and by the HTML report, the e-mail
\* report is built, and no page fails. Each of the three divides by len(data)
\* (lines 92, 192, 1032).
C12_EmptyDatasetRiskIsZero ==
    (Loaded /\ Len(Rows) = 0) =>
        /\ menu = "report" => (~raised /\ metrics.critical_ratio = ZeroMetric)
        /\ menu = "email" => (~raised /\ metrics.html_critical_ratio = ZeroMetric)
        /\ mail.success # "none" => mail.step # "build"

\* C13 as stated: a mean of coverage_weeks over no row is 0, in the metric of
\* a page over a dataset without rows and in every row of the BIZ and season
\* tables that counts no item. Series.mean() of nothing is nan, and round
\* keeps it (lines 465, 615, 626).
C13_MeanOfNothingIsZero ==
    /\ (Loaded /\ Len(Rows) = 0 /\ metrics.avg_coverage # Absent) =>
        metrics.avg_coverage = ZeroMetric
    /\ (Loaded /\ ~raised /\ menu \in {"biz", "season"}) =>
        \A i \in 1..Len(table) :
            table[i].n_items = 0 => table[i].mean_coverage = ZeroMetric

-----------------------------------------------------------------------------
(* Properties of the rankings, under SpecStores *)

OfflineIdx == {k \in RowIdx : Rows[k].store_name # ONLINE}
OfflineStores == {Rows[k].store_name : k \in OfflineIdx}
StoreIdx(store) == {k \in OfflineIdx : Rows[k].store_name = store}

\* the inventory amount of a store, and its place among the offline stores
StoreAmount(store) ==
    RatSum([k \in 1..Len(Rows) |->
                IF k \in StoreIdx(store) THEN Rows[k].inventory_value ELSE Zero])

StoreRank(store) ==
    1 + Cardinality({o \in OfflineStores : RatLt(StoreAmount(store), StoreAmount(o))})

\* C14 as stated: the overview's view of good stores shows exactly the offline
\* stores at places 2 to 6 by inventory amount, and never the store at place 1.
\* With fewer than six stores the view is nlargest(5, good items) over all of
\* them (lines 577, 583).
C14_GoodStoresAreRanks2To6 ==
    (Loaded /\ ~raised /\ menu = "overview") =>
        Range(views.good_stores) = {o \in OfflineStores : StoreRank(o) \in 2..6}

\* the number of items of a status a store holds, and the first row of a store
StoreCount(status) ==
    [o \in OfflineStores |->
        RatInt(Cardinality({k \in StoreIdx(o) : Rows[k].status = status}))]

StoreFirstRow == [o \in OfflineStores |-> CHOOSE k \in StoreIdx(o) : \A l \in StoreIdx(o) : k <= l]

\* a row of the dataset by its index in the sheet
IdxOf(K) == {Rows[k].idx : k \in K}
RowAt(i) == Rows[CHOOSE k \in RowIdx : Rows[k].idx = i]
BizIdx(biz) == {k \in RowIdx : Rows[k].business_unit = biz}
BizStatusIdx(biz, status) == {k \in BizIdx(biz) : Rows[k].status = status}
SalesByIdx == [i \in IdxOf(RowIdx) |-> RowAt(i).avg_weekly_sales]
CoverageByIdx == [i \in IdxOf(RowIdx) |-> RowAt(i).coverage_weeks]
IdxPosition == [i \in IdxOf(RowIdx) |-> i]

\* candidate a comes before candidate b: by the field, then by place in the source
Ahead(a, b, field, place, descending) ==
    \/ IF descending THEN RatLt(field[b], field[a]) ELSE RatLt(field[a], field[b])
    \/ field[a] = field[b] /\ place[a] < place[b]

\* v is the first n of the candidates so ordered, all of them when fewer than n
IsFirstN(v, candidates, n, field, place, descending) ==
    /\ Len(v) = IF Cardinality(candidates) < n THEN Cardinality(candidates) ELSE n
    /\ Range(v) \subseteq candidates
    /\ \A i, j \in 1..Len(v) : i < j => Ahead(v[i], v[j], field, place, descending)
    /\ \A c \in candidates \ Range(v) :
        \A i \in 1..Len(v) : Ahead(v[i], c, field, place, descending)

\* C15: each selection of a top N (the five stores with most warning items and
\* with most critical items, the ten critical and the ten good items of AP and
\* of FW that sell most, the ten items of AP and of FW with least coverage) is
\* the first N of its candidates in descending order of the field (ascending
\* for least coverage), candidates of equal value in the order of the sheet,
\* and all candidates when there are fewer than N.
C15_TopNFirstInStableOrder ==
    /\ (Loaded /\ ~raised /\ menu = "overview") =>
        /\ IsFirstN(views.warning_stores, OfflineStores, 5,
                    StoreCount("warning"), StoreFirstRow, TRUE)
        /\ IsFirstN(views.critical_stores, OfflineStores, 5,
                    StoreCount("critical"), StoreFirstRow, TRUE)
    /\ (Loaded /\ ~raised /\ menu = "report") =>
        /\ IsFirstN(views.ap_critical, IdxOf(BizStatusIdx("AP", "critical")), 10,
                    SalesByIdx, IdxPosition, TRUE)
        /\ IsFirstN(views.ap_good, IdxOf(BizStatusIdx("AP", "good")), 10,
                    SalesByIdx, IdxPosition, TRUE)
        /\ IsFirstN(views.fw_critical, IdxOf(BizStatusIdx("FW", "critical")), 10,
                    SalesByIdx, IdxPosition, TRUE)
        /\ IsFirstN(views.fw_good, IdxOf(BizStatusIdx("FW", "good")), 10,
                    SalesByIdx, IdxPosition, TRUE)
        /\ IsFirstN(views.ap_low_coverage, IdxOf(BizIdx("AP")), 10,
                    CoverageByIdx, IdxPosition, FALSE)
        /\ IsFirstN(views.fw_low_coverage, IdxOf(BizIdx("FW")), 10,
                    CoverageByIdx, IdxPosition, FALSE)

\* twelve critical items of AP that sell the same: the first ten of the sheet
C15_Witness ==
    /\ Loaded /\ menu = "report"
    /\ Cardinality(BizStatusIdx("AP", "critical")) = 12
    /\ \A k \in RowIdx : Rows[k].avg_weekly_sales = RatInt(1)
    /\ views.ap_critical = <<0, 1, 2, 3, 4, 5, 6, 7, 8, 9>>

Ascending(keys) == \A i, j \in 1..Len(keys) : i < j => StrLt(keys[i], keys[j])

\* C16 as stated: the overview's store table and the store detail table list
\* the stores in ascending lexical order of their name. Both take the stores
\* from unique(), in the order of their first row (lines 558, 834).
C16_StoresInLexicalOrder ==
    (Loaded /\ ~raised /\ menu \in {"overview", "store"}) => Ascending(Keys(table))

\* C17: the season analysis table and the e-mail's season summary hold one row
\* per distinct season of the dataset, in ascending lexical order of the
\* season, and then the TOTAL row.
C17_SeasonsInLexicalOrder ==
    /\ (Loaded /\ ~raised /\ menu = "season") =>
        /\ OnePerValueThenTotal(table, ValuesOf("season"))
        /\ Ascending(Keys(Front(table)))
    /\ mail.success = "yes" =>
        /\ OnePerValueThenTotal(mail.season_summary, ValuesOf("season"))
        /\ Ascending(Keys(Front(mail.season_summary)))

\* the later season first in the sheet, the earlier first in the table
C17_Witness ==
    /\ Loaded /\ menu = "season"
    /\ Len(Rows) = 2 /\ Rows[1].season = "24SS" /\ Rows[2].season = "23FW"
    /\ Keys(table) = <<"23FW", "24SS", TOTAL>>

-----------------------------------------------------------------------------
(* Properties of the sentinel, under SpecSentinel *)

\* C18 as stated: no row that sells has a coverage_weeks of 999 or more, so
\* that the rows that sell nothing rank highest in every ordering by coverage.
\* The quotient stock / avg is kept as it is (line 374), whatever its size.
C18_SentinelIsHighest ==
    \A i \in RowIdx :
        Rows[i].avg_weekly_sales # Zero => RatLt(Rows[i].coverage_weeks, SENTINEL)

-----------------------------------------------------------------------------
(* Properties of the session, under Spec *)

C20_EmailFailureIsReported ==
    /\ [](/\ mail.success = "yes" => (mail.sent /\ mail.step = "ok")
          /\ mail.success = "no" =>
                (mail.step \in {"build", "connect", "starttls", "login", "send", "quit"}
                 /\ menu = "email" /\ Loaded
                 /\ data = load_and_process_data(uploaded_file)[1])
          /\ mail.step \in {"connect", "starttls", "login", "send"} =>
                (mail.success = "no" /\ ~mail.sent))
    /\ [][mail' # mail /\ mail'.success # "none" => (data' = data /\ raised' = raised)]_vars

\* a refused login on a dataset with rows
C20_Witness ==
    /\ mail.success = "no" /\ mail.step = "login"
    /\ Len(Rows) = 2

-----------------------------------------------------------------------------
(* Properties of the online store, under Spec *)

OfflineRows == SelectSeq(Rows, LAMBDA r : r.store_name # ONLINE)
StoreLists ==
    Range(views.good_stores) \cup Range(views.warning_stores)
        \cup Range(views.critical_stores) \cup Range(views.low_coverage_stores)
        \cup Range(views.high_coverage_stores)

\* C21: the overview's three store rankings and the report's lists of low and
\* high coverage stores never name the online store and are what they would
\* be without the online rows, while the overview's mean coverage and the
\* TOTAL row of the BIZ and season tables count every row, online ones included.
C21_OnlineOutsideStoreRankings ==
    /\ (Loaded /\ ~raised /\ menu \in {"overview", "report"}) =>
        /\ ONLINE \notin StoreLists
        /\ views.good_stores = MenuViews(menu, OfflineRows).good_stores
        /\ views.warning_stores = MenuViews(menu, OfflineRows).warning_stores
        /\ views.critical_stores = MenuViews(menu, OfflineRows).critical_stores
        /\ views.low_coverage_stores = MenuViews(menu, OfflineRows).low_coverage_stores
        /\ views.high_coverage_stores = MenuViews(menu, OfflineRows).high_coverage_stores
    /\ (Loaded /\ menu = "overview") =>
        metrics.avg_coverage = round1(mean(Column(Rows, "coverage_weeks")))
    /\ (Loaded /\ ~raised /\ menu \in {"biz", "season"}) =>
        /\ Last(table).n_items = Len(Rows)
        /\ Last(table).inventory_value = Trunc(SumOf(Rows, "inventory_value"))

\* an online row and a row of Busan: the rankings name Busan alone, the mean
\* is over both rows
C21_Witness ==
    /\ Loaded /\ menu = "overview"
    /\ Len(Rows) = 2 /\ Rows[1].store_name = ONLINE /\ Rows[2].store_name = "Busan"
    /\ Rows[1].coverage_weeks = RatInt(2) /\ Rows[2].coverage_weeks = RatInt(1)
    /\ views.good_stores = <<"Busan">>
    /\ metrics.avg_coverage = Num(Rat(3, 2))

-----------------------------------------------------------------------------
(* Properties of the reading of the sheet *)

\* the header is the required name with white space before or after it
PaddedName(name, col) ==
    \E i \in 1..Len(name) :
        /\ name[i] = col
        /\ \A j \in 1..Len(name) : j # i => name[j] = " "

NamesAllRequired(file) ==
    \A i \in 1..Len(required_columns) :
        \E name \in file.columns : PaddedName(name, required_columns[i])

\* C22 (under SpecSchema): a sheet whose headers are the required names, some
\* with white space before or after, is accepted, and its dataset is the one
\* of the same rows under the exact names.
C22_PaddedHeadersAccepted ==
    (~uploaded_file.none /\ NamesAllRequired(uploaded_file)) =>
        /\ error_msg.none
        /\ data = load_and_process_data(File(ExactColumns, uploaded_file.rows))[1]
        /\ ~data.none

\* a product-code header padded on both sides, and the row of the sheet loaded
C22_Witness ==
    /\ <<" ", "product_code", " ">> \in uploaded_file.columns
    /\ error_msg.none
    /\ Len(Rows) = 1

\* the number a text of the sheets stands for once commas, the currency token
\* and spaces are taken out, nan when what is left is no number
TextValue(text) ==
    CASE text = <<"1", ",", "0", "0", "0", "won">> -> Num(RatInt(1000))
      [] text = <<" ", "1", " ", "0", "0", "0", " ">> -> Num(RatInt(1000))
      [] text = <<"1", ".", "5">> -> Num(Rat(3, 2))
      [] text = <<"x">> -> NaN

CellValue(c) == IF c.t = "str" THEN TextValue(c.s) ELSE c

\* C23 (under Spec): a row with its identity fields is kept exactly when each
\* of its six numeric cells is a number, or a text that is a number once
\* commas, the currency token and spaces are removed; the kept row holds
\* those numbers ("1,000won" and " 1 000 " both give 1000).
C23_TextNumbersCleanedThenParsed ==
    Loaded =>
        /\ \A i \in 1..Len(uploaded_file.rows) :
            (Sheet(i).store_name # NA /\ Sheet(i).product_name # NA /\ Sheet(i).product_code # NA)
                => ((i - 1) \in IdxOf(RowIdx)
                    <=> \A c \in Range(numeric_columns) : CellValue(Sheet(i)[c]).t = "num")
        /\ \A k \in RowIdx : \A c \in Range(numeric_columns) :
            Rows[k][c] = Val(CellValue(Sheet(Rows[k].idx + 1)[c]))

\* "1,000won" and " 1 000 " kept as 1000, next to a fraction in a text column
C23_Witness ==
    /\ Loaded /\ Len(Rows) = 2
    /\ Sheet(1).inventory_value = Txt(<<"1", ",", "0", "0", "0", "won">>)
    /\ Rows[1].inventory_value = RatInt(1000)
    /\ Sheet(2).week1_sales = Txt(<<" ", "1", " ", "0", "0", "0", " ">>)
    /\ Rows[2].week1_sales = RatInt(1000)

\* C24 (under Spec): for every file, load_and_process_data returns a dataset
\* and no message, or no dataset and a message, never both and never neither;
\* an exception inside it (a file that cannot be read) gives the message, and
\* the script then shows no page.
C24_DatasetOrMessage ==
    ~uploaded_file.none =>
        /\ (~data.none /\ error_msg.none) \/ (data.none /\ ~error_msg.none)
        /\ <<data, error_msg>> = load_and_process_data(uploaded_file)
        /\ ~uploaded_file.readable => (data.none /\ error_msg.kind = "exception")
        /\ data.none => (table = <<>> /\ ~raised /\ mail = NoMail)

\* the unreadable file, answered by a message
C24_Witness ==
    /\ uploaded_file = Unreadable
    /\ data = NoData
    /\ error_msg.kind = "exception"

-----------------------------------------------------------------------------
(* Properties of the tables, under Spec *)

Statuses == {"critical", "warning", "good"}

\* C25: every row of the BIZ and season tables, TOTAL included, has counts of
\* critical, warning and good items that are not negative and add up to its
\* number of items, and every row of the dataset has one of the three statuses.
C25_StatusCountsPartitionItems ==
    /\ \A k \in RowIdx : Rows[k].status \in Statuses
    /\ (Loaded /\ ~raised /\ menu \in {"biz", "season"}) =>
        \A i \in 1..Len(table) :
            /\ table[i].critical >= 0 /\ table[i].warning >= 0 /\ table[i].good >= 0
            /\ table[i].critical + table[i].warning + table[i].good = table[i].n_items
            /\ table[i].key # NA => table[i].n_items
                 = Cardinality({k \in RowIdx :
                        table[i].key = TOTAL
                        \/ Rows[k][IF menu = "biz" THEN "business_unit" ELSE "season"]
                             = table[i].key})

\* a BIZ table whose TOTAL row counts a critical and a warning item
C25_Witness ==
    /\ Loaded /\ menu = "biz" /\ ~raised
    /\ Last(table).n_items = 2 /\ Last(table).critical = 1 /\ Last(table).warning = 1

CanonicalPresent == SelectSeq(biz_order, LAMBDA b : b \in ValuesOf("business_unit"))

\* C26: in a sent e-mail the BIZ summary and the BIZ report hold one row for
\* each of AP, FW, EQ that the dataset holds, in that order, then TOTAL; each
\* such row is over the rows of its code, TOTAL over all rows, those of other
\* codes included.
C26_EmailBizRowsCanonicalOnly ==
    mail.success = "yes" =>
        /\ Keys(mail.biz_summary) = Append(CanonicalPresent, TOTAL)
        /\ Keys(mail.biz_report) = Append(CanonicalPresent, TOTAL)
        /\ TotalOverDataset(Last(mail.biz_summary))
        /\ Last(mail.biz_summary).stock_qty = Trunc(SumOf(Rows, "current_stock_qty"))
        /\ \A i \in 1..Len(CanonicalPresent) :
            mail.biz_summary[i].critical
                = Cardinality({k \in BizStatusIdx(CanonicalPresent[i], "critical") : TRUE})

\* a dataset of an AP row and a ZZ row: the summary holds AP and TOTAL, and
\* TOTAL counts both rows' stock
C26_Witness ==
    /\ mail.success = "yes"
    /\ Len(Rows) = 2 /\ Rows[1].business_unit = "AP" /\ Rows[2].business_unit = "ZZ"
    /\ Keys(mail.biz_summary) = <<"AP", TOTAL>>
    /\ Last(mail.biz_summary).stock_qty = 6 /\ mail.biz_summary[1].stock_qty = 1

-----------------------------------------------------------------------------
(* Properties of the store views, under SpecStores *)

\* C27: with every store selected, the charts of the store detail view show
\* the offline stores at places 2 to 11 by inventory amount: never the store
\* at place 1, never the online store, ten stores at most, none when there is
\* one offline store; the table lists every offline store.
C27_ChartsShowRanks2To11 ==
    (Loaded /\ ~raised /\ menu = "store") =>
        /\ Range(views.charted_stores) = {o \in OfflineStores : StoreRank(o) \in 2..11}
        /\ Len(views.charted_stores) = Cardinality(Range(views.charted_stores))
        /\ Len(views.charted_stores) <= 10
        /\ ONLINE \notin Range(views.charted_stores)
        /\ Cardinality(OfflineStores) = 1 => views.charted_stores = <<>>
        /\ OnePerValue(table, OfflineStores)

\* twelve offline stores and the online store: ten stores charted
C27_Witness ==
    /\ Loaded /\ menu = "store"
    /\ Cardinality(OfflineStores) = 12
    /\ \E k \in RowIdx : Rows[k].store_name = ONLINE
    /\ Len(views.charted_stores) = 10
    /\ "S12" \notin Range(views.charted_stores) /\ "S01" \notin Range(views.charted_stores)

\* the mean coverage of a store, as computed
StoreMean ==
    [o \in OfflineStores |->
        RatDiv(RatSum([k \in 1..Len(Rows) |->
                        IF k \in StoreIdx(o) THEN Rows[k].coverage_weeks ELSE Zero]),
               RatInt(Cardinality(StoreIdx(o))))]

LowStores == {o \in OfflineStores : RatLt(StoreMean[o], FOUR)}

NonDecreasing(v) == \A i, j \in 1..Len(v) : i < j => RatLe(StoreMean[v[i]], StoreMean[v[j]])

\* C28: the report's list of low coverage stores holds offline stores whose
\* mean coverage, not rounded, is below 4: the ten lowest of them (all when
\* fewer), lowest first; the list of high coverage stores holds the ten
\* offline stores of highest mean (all when fewer), lowest first.
C28_CoverageStoreLists ==
    (Loaded /\ ~raised /\ menu = "report") =>
        /\ Range(views.low_coverage_stores) \subseteq LowStores
        /\ Len(views.low_coverage_stores)
             = (IF Cardinality(LowStores) < 10 THEN Cardinality(LowStores) ELSE 10)
        /\ Cardinality(Range(views.low_coverage_stores)) = Len(views.low_coverage_stores)
        /\ NonDecreasing(views.low_coverage_stores)
        /\ \A o \in LowStores \ Range(views.low_coverage_stores) :
            \A i \in 1..Len(views.low_coverage_stores) :
                RatLe(StoreMean[views.low_coverage_stores[i]], StoreMean[o])
        /\ Range(views.high_coverage_stores) \subseteq OfflineStores
        /\ Len(views.high_coverage_stores)
             = (IF Cardinality(OfflineStores) < 10 THEN Cardinality(OfflineStores) ELSE 10)
        /\ Cardinality(Range(views.high_coverage_stores)) = Len(views.high_coverage_stores)
        /\ NonDecreasing(views.high_coverage_stores)
        /\ \A o \in OfflineStores \ Range(views.high_coverage_stores) :
            \A i \in 1..Len(views.high_coverage_stores) :
                RatLe(StoreMean[o], StoreMean[views.high_coverage_stores[i]])

\* twelve stores of 1, 2 and 4 weeks: the eight below 4 are low, lowest first,
\* and ten stores are high
C28_Witness ==
    /\ Loaded /\ menu = "report"
    /\ Cardinality(OfflineStores) = 12
    /\ Len(views.low_coverage_stores) = 8
    /\ StoreMean[views.low_coverage_stores[1]] = RatInt(1)
    /\ StoreMean[views.low_coverage_stores[8]] = RatInt(2)
    /\ \E o \in OfflineStores : StoreMean[o] = FOUR
    /\ Len(views.high_coverage_stores) = 10

-----------------------------------------------------------------------------
(* Properties of the coverage lists and bins, under SpecSentinel *)

BelowSentinel(K) == {k \in K : RatLt(Rows[k].coverage_weeks, SENTINEL)}

\* C29: the report's lists of the ten items of AP and of FW with most coverage
\* hold no row at 999 weeks or above: they rank the rows below it; the lists
\* of the ten items with least coverage rank every row of the BIZ.
C29_HighCoverageSkipsSentinel ==
    (Loaded /\ ~raised /\ menu = "report") =>
        /\ \A i \in Range(views.ap_high_coverage) \cup Range(views.fw_high_coverage) :
            RatLt(RowAt(i).coverage_weeks, SENTINEL)
        /\ IsFirstN(views.ap_high_coverage, IdxOf(BelowSentinel(BizIdx("AP"))), 10,
                    CoverageByIdx, IdxPosition, TRUE)
        /\ IsFirstN(views.fw_high_coverage, IdxOf(BelowSentinel(BizIdx("FW"))), 10,
                    CoverageByIdx, IdxPosition, TRUE)
        /\ IsFirstN(views.ap_low_coverage, IdxOf(BizIdx("AP")), 10,
                    CoverageByIdx, IdxPosition, FALSE)
        /\ IsFirstN(views.fw_low_coverage, IdxOf(BizIdx("FW")), 10,
                    CoverageByIdx, IdxPosition, FALSE)

\* a row that sells nothing and a row of 4 weeks: the first is in the list of
\* least coverage only
C29_Witness ==
    /\ Loaded /\ menu = "report"
    /\ Len(Rows) = 2
    /\ Rows[1].avg_weekly_sales = Zero /\ Rows[1].coverage_weeks = SENTINEL
    /\ Rows[2].coverage_weeks = FOUR
    /\ views.ap_high_coverage = <<1>>
    /\ views.ap_low_coverage = <<1, 0>>
    /\ views.fw_high_coverage = <<>>

\* C30 as stated: every row below 999 weeks is counted in one of the seven
\* bins of the treemap, so that the counts add up to the number of such rows.
\* pd.cut leaves the lowest edge open (line 916): a row of 0 weeks, and one
\* below 0, is in no bin.
C30_BinsCountEveryRow ==
    (Loaded /\ menu = "detail") =>
        /\ Len(metrics.coverage_bins) = 7
        /\ IntSum(metrics.coverage_bins) = Cardinality(BelowSentinel(RowIdx))
====
